---- MODULE Spec2Model ----
(***************************************************************************)
(* Model of django-postal-codes: the country import pipeline               *)
(* (data_pipelines/base.py, data_pipelines/portugal/__main__.py), the      *)
(* fixture loader (management/commands/import_postal_codes.py), the        *)
(* models (models.py) and the polygon aggregation of the detail            *)
(* serializers (api/serializers.py).                                       *)
(*                                                                         *)
(* The database is a record of tables, each a set of rows.  Text is a TLA+ *)
(* string when it is only compared, and a sequence of character codes when *)
(* the code formats it (str, zfill).  A geometry is a set of cells of a    *)
(* one-dimensional grid together with its GEOS/shapely geometry type.      *)
(***************************************************************************)
EXTENDS Integers, Sequences, FiniteSets, Bags, TLC

VARIABLES
    db,                  \* the database as the main connection sees it
    snap,                \* savepoint taken when execute enters transaction.atomic()
    pre,                 \* history: the database when the current/last operation began
    nextId,              \* the primary-key sequence of every table
    pc,                  \* position of the running operation ("idle" between operations)
    result,              \* outcome (return value or exception) of the last finished operation
    ops,                 \* number of operations started so far
    strategy,            \* the class of the strategy object, None before one is constructed
    caop_sheet,          \* the reference table the constructor reads into caop_sheet
    postal_codes_sheet,  \* the raw postal table the constructor reads into postal_codes_sheet
    queue,               \* create_postal_codes: rows not yet dispatched to a worker
    workers,             \* create_postal_codes: the tasks the threads of the pool run
    late,                \* bag of the tasks still running in threads of terminated pools
    failure,             \* create_postal_codes: first exception a task of the pool has raised
    log,                 \* lines written through logging.warning (the skip warning yields none)
    order,               \* history: the last row processed and the pairs it set out to try
    steps                \* history: the methods the current/last execute has called

vars == <<db, snap, pre, nextId, pc, result, ops, strategy, caop_sheet, postal_codes_sheet,
          queue, workers, late, failure, log, order, steps>>

-----------------------------------------------------------------------------
(* Bounds *)

MaxRows == 2          \* rows of the administrative reference table
MaxPostalRows == 2    \* rows of the raw postal-code table
MaxOps == 3           \* operations started in one behaviour
NumWorkers == 2       \* joblib worker threads

-----------------------------------------------------------------------------
(* Values *)

None == "<None>"      \* Python None / NaN of a text column
NaN == -1             \* NaN of a numeric column
NoRow == 0

Range(s) == {s[i] : i \in DOMAIN s}

RECURSIVE SeqsUpTo(_, _)
SeqsUpTo(S, n) ==
    IF n = 0 THEN {<<>>}
    ELSE LET shorter == SeqsUpTo(S, n - 1)
         IN  shorter \cup {Append(s, x) : s \in {t \in shorter : Len(t) = n - 1}, x \in S}

Raise(exc) == [kind |-> "raise", exc |-> exc]
Return(v) == [kind |-> "return", value |-> v]

-----------------------------------------------------------------------------
(* Text that the code formats: sequences of character codes *)

Dash == 45
Dot == 46
Zero == 48

\* str(n) of a non-negative integer: its decimal digits, no leading zeros
RECURSIVE Str(_)
Str(n) == IF n < 10 THEN <<Zero + n>> ELSE Append(Str(n \div 10), Zero + (n % 10))

\* str.zfill(width): left-pad with "0" up to width, never truncate
RECURSIVE zfill(_, _)
zfill(s, width) == IF Len(s) >= width THEN s ELSE zfill(<<Zero>> \o s, width)

-----------------------------------------------------------------------------
(* Geometry: cells 1..NumCells of a line; two cells touch when adjacent *)

NumCells == 6
Cells == 1..NumCells

Geometry(type, cells) == [geom_type |-> type, cells |-> cells]
Polygon(cells) == Geometry("Polygon", cells)
NoGeometry == Geometry(None, {})      \* a null polygon column / a None list entry

Connected(cells) == \A a \in cells, b \in cells : \A x \in a..b : x \in cells

\* shapely.ops.unary_union: the dissolved union; its type follows from its shape
unary_union(geoms) ==
    LET cells == UNION {g.cells : g \in Range(geoms)}
    IN  IF cells = {} THEN Geometry("GeometryCollection", {})
        ELSE IF Connected(cells) THEN Geometry("Polygon", cells)
        ELSE Geometry("MultiPolygon", cells)

\* django.contrib.gis.geos.Point(x, y)
Point(x, y) == [x |-> x, y |-> y]

\* the polygon__intersects lookup against a point
Intersects(polygon, point) ==
    /\ polygon # NoGeometry
    /\ point.y = 0
    /\ point.x \in polygon.cells

-----------------------------------------------------------------------------
(* Input files *)

\* features of the *.gpkg files: the "Dicofre" attribute and the geometry
Features ==
    << [Dicofre |-> Str(11), geom |-> Polygon({1, 2})],
       [Dicofre |-> Str(12), geom |-> Polygon({2, 3})],
       [Dicofre |-> Str(13), geom |-> Polygon({4})],
       [Dicofre |-> Str(13), geom |-> Polygon({6})],
       [Dicofre |-> <<Zero>> \o Str(7), geom |-> Polygon({5})] >>

\* pgeocode data: the rows of the geocoding source, keyed by "BBBB-EEE"
NominatimData ==
    { [postal_code |-> Str(4000) \o <<Dash>> \o zfill(Str(7), 3),  latitude |-> 0, longitude |-> 1],
      [postal_code |-> Str(4000) \o <<Dash>> \o zfill(Str(9), 3),  latitude |-> 0, longitude |-> 3],
      [postal_code |-> Str(4000) \o <<Dash>> \o zfill(Str(12), 3), latitude |-> 0, longitude |-> 2],
      [postal_code |-> Str(4000) \o <<Dash>> \o zfill(Str(50), 3), latitude |-> 1, longitude |-> 1] }

\* pgeocode.Nominatim.query_postal_code of one string: a row, NaN-filled when unknown
query_postal_code(code) ==
    IF \E r \in NominatimData : r.postal_code = code
    THEN CHOOSE r \in NominatimData : r.postal_code = code
    ELSE [postal_code |-> code, latitude |-> NaN, longitude |-> NaN]

\* rows of the CAOP sheet: DISTRITO_ILHA_DSG, CONCELHO_DSG, FREGUESIA_DSG, DICOFRE
CaopRow(d, c, l, code) ==
    [DISTRITO_ILHA_DSG |-> d, CONCELHO_DSG |-> c, FREGUESIA_DSG |-> l, DICOFRE |-> code]

CaopRows ==
    { CaopRow("Porto", "Porto", "Se", 11),
      CaopRow("Porto", "Porto", "Se", 12),
      CaopRow("Porto", "Gaia", "Avintes", 13),
      CaopRow("Braga", "Porto", "Se", 7),
      CaopRow("Braga", None, None, NaN),
      CaopRow(None, "Gaia", "Avintes", 13) }

\* rows of codigos_postais.csv (np.nan already replaced by None)
PostalRow(num, ext, desig, distrito, concelho, tipo, nome) ==
    [num_cod_postal |-> num, ext_cod_postal |-> ext, desig_postal |-> desig,
     cod_distrito |-> distrito, cod_concelho |-> concelho,
     nome_localidade |-> desig,
     tipo_arteria |-> tipo, prep1 |-> None, titulo_arteria |-> None, prep2 |-> None,
     nome_arteria |-> nome, local_arteria |-> None]

PostalRows ==
    { PostalRow(4000, 7, "PORTO", 13, 12, "Rua", "Nova"),
      PostalRow(4000, 12, "PORTO", 13, 12, None, None),
      PostalRow(4400, 3, "GAIA", 13, 17, None, None) }

\* a sample reference table and a sample postal table
SampleCaop == << CaopRow("Porto", "Porto", "Se", 11), CaopRow("Porto", "Gaia", "Avintes", 13) >>
SamplePostal == << PostalRow(4000, 12, "PORTO", 13, 12, None, None),
                   PostalRow(4000, 7, "PORTO", 13, 12, "Rua", "Nova") >>

\* a postal table with three extensions of one label, one of them on two rows,
\* and a row of another label and county
RankingPostal == << PostalRow(4000, 12, "PORTO", 13, 12, None, None),
                    PostalRow(4000, 3, "PORTO", 13, 12, None, None),
                    PostalRow(4000, 12, "PORTO", 13, 12, "Rua", "Nova"),
                    PostalRow(4400, 5, "GAIA", 13, 17, None, None),
                    PostalRow(4000, 7, "PORTO", 13, 12, None, None) >>

\* a raw postal table with two pairs at one distance of a third, and two rows
\* without a label
TiePostal == << PostalRow(4000, 4, "PORTO", 13, 12, None, None),
                PostalRow(4000, 10, "PORTO", 13, 12, None, None),
                PostalRow(4000, 20, None, 13, 12, None, None),
                PostalRow(4000, 21, None, 13, 12, None, None),
                PostalRow(4000, 7, "PORTO", 13, 12, None, None) >>

\* the sheets of a run of the pipeline: every reference table, with the sample
\* postal table
Sheets == {<<c, SamplePostal>> : c \in SeqsUpTo(CaopRows, MaxRows)}

\* the sheets of the runs of create_postal_codes alone: every postal table, and
\* the two long ones, with a sample reference table
PoolSheets ==
    {<<SampleCaop, p>> : p \in SeqsUpTo(PostalRows, MaxPostalRows)}
        \cup {<<SampleCaop, RankingPostal>>, <<SampleCaop, TiePostal>>}

-----------------------------------------------------------------------------
(* The database: models.py *)

Tables == {"country", "district", "county", "locality", "postalcode"}

EmptyDb == [t \in Tables |-> {}]

Country(id, name) == [id |-> id, name |-> name]
District(id, name, country) == [id |-> id, name |-> name, country |-> country]
County(id, name, district) == [id |-> id, name |-> name, district |-> district]
Locality(id, name, county, polygon) ==
    [id |-> id, name |-> name, county |-> county, polygon |-> polygon]

Ids(rows) == {r.id : r \in rows}

\* on_delete=models.CASCADE from the postal code up to the country
CascadeLocalities(d, ids) ==
    [d EXCEPT !.locality = {r \in @ : r.id \notin ids},
              !.postalcode = {r \in @ : r.locality \notin ids}]

CascadeCounties(d, ids) ==
    [CascadeLocalities(d, Ids({r \in d.locality : r.county \in ids}))
        EXCEPT !.county = {r \in @ : r.id \notin ids}]

CascadeDistricts(d, ids) ==
    [CascadeCounties(d, Ids({r \in d.county : r.district \in ids}))
        EXCEPT !.district = {r \in @ : r.id \notin ids}]

CascadeCountries(d, ids) ==
    [CascadeDistricts(d, Ids({r \in d.district : r.country \in ids}))
        EXCEPT !.country = {r \in @ : r.id \notin ids}]

\* pandas keeps the first occurrence: Series.unique / DataFrame.drop_duplicates
RECURSIVE Unique(_)
Unique(s) ==
    IF s = <<>> THEN <<>>
    ELSE LET front == Unique(SubSeq(s, 1, Len(s) - 1))
             last == s[Len(s)]
         IN  IF last \in Range(front) THEN front ELSE Append(front, last)

\* QuerySet.get: exactly one row, or DoesNotExist / MultipleObjectsReturned
Get(rows) ==
    IF rows = {} THEN Raise("DoesNotExist")
    ELSE IF Cardinality(rows) > 1 THEN Raise("MultipleObjectsReturned")
    ELSE Return(CHOOSE r \in rows : TRUE)

\* index of the first element of s that raises, 0 when none does
FirstRaise(s) ==
    IF \E i \in DOMAIN s : s[i].kind = "raise"
    THEN CHOOSE i \in DOMAIN s : s[i].kind = "raise" /\ \A j \in 1..(i - 1) : s[j].kind # "raise"
    ELSE 0

-----------------------------------------------------------------------------
(* data_pipelines/base.py and data_pipelines/portugal/__main__.py *)

country_name == "Portugal"
country_code == "PT"

\* what a pipeline step leaves behind: the tables and the sequences
Done(d, ids) == [kind |-> "return", db |-> d, nextId |-> ids]

\* CountryStrategy.populate_country
populate_country(d, ids) ==
    LET existing == {r \in d.country : r.name = country_name}
        deleted == CascadeCountries(d, Ids(existing))
    IN  Done([deleted EXCEPT !.country = @ \cup {Country(ids.country, country_name)}],
             [ids EXCEPT !.country = @ + 1])

\* CountryStrategy.country: Country.objects.get_or_create(name=country_name)[0]
country(d, ids) ==
    LET existing == {r \in d.country : r.name = country_name}
    IN  IF existing # {}
        THEN [row |-> CHOOSE r \in existing : TRUE, db |-> d, nextId |-> ids]
        ELSE [row |-> Country(ids.country, country_name),
              db |-> [d EXCEPT !.country = @ \cup {Country(ids.country, country_name)}],
              nextId |-> [ids EXCEPT !.country = @ + 1]]

NotNone(x) == x # None

\* PortugalStrategy.populate_districts
populate_districts(sheet, d, ids) ==
    LET column == [i \in DOMAIN sheet |-> sheet[i].DISTRITO_ILHA_DSG]
        names == Unique(SelectSeq(column, NotNone))
        owner == IF names = <<>> THEN [row |-> Country(0, country_name), db |-> d, nextId |-> ids]
                 ELSE country(d, ids)
        keys == [i \in DOMAIN names |-> owner.nextId.district + i - 1]
        districts == {District(keys[i], names[i], owner.row.id) : i \in DOMAIN names}
        deleted == CascadeDistricts(owner.db, Ids(owner.db.district))
    IN  Done([deleted EXCEPT !.district = @ \cup districts],
             [owner.nextId EXCEPT !.district = @ + Len(names)])

CountyComplete(r) == r.DISTRITO_ILHA_DSG # None /\ r.CONCELHO_DSG # None

\* PortugalStrategy.populate_counties
populate_counties(sheet, d, ids) ==
    LET pairs == [i \in DOMAIN sheet |->
                     [DISTRITO_ILHA_DSG |-> sheet[i].DISTRITO_ILHA_DSG,
                      CONCELHO_DSG |-> sheet[i].CONCELHO_DSG]]
        rows == SelectSeq(Unique(pairs), CountyComplete)
        parents == [i \in DOMAIN rows |->
                       Get({r \in d.district : r.name = rows[i].DISTRITO_ILHA_DSG})]
        bad == FirstRaise(parents)
        counties == {County(ids.county + i - 1, rows[i].CONCELHO_DSG, parents[i].value.id)
                        : i \in DOMAIN rows}
    IN  IF bad # 0 THEN parents[bad]
        ELSE Done([d EXCEPT !.county = @ \cup counties],
                  [ids EXCEPT !.county = @ + Len(rows)])

\* CountryStrategy.populate_postal_codes: abstract, and PortugalStrategy does not
\* override it (its postal-code method is named create_postal_codes).  This is
\* the body of the abstract method, a docstring, as a child class that
\* supplies the method by calling it runs it
populate_postal_codes(d, ids) == Done(d, ids)

\* str() of a DICOFRE cell: the column is float64 as soon as one of its cells is
\* NaN, and str of a float carries ".0"
StrCell(sheet, v) ==
    IF \E i \in DOMAIN sheet : sheet[i].DICOFRE = NaN
    THEN Str(v) \o <<Dot, Zero>>
    ELSE Str(v)

HasDicofre(code) == LET Test(f) == f.Dicofre = code IN SelectSeq(Features, Test)

\* PortugalStrategy.find_poly, given str(dicofre)
find_poly(dicofre) ==
    LET found == HasDicofre(dicofre)
        geometries == [i \in DOMAIN found |-> found[i].geom]
        poly == unary_union(geometries)
    IN  IF geometries = <<>> THEN Raise("RuntimeError")
        ELSE IF poly.geom_type # "MultiPolygon"
             THEN Return(Geometry("MultiPolygon", poly.cells))
             ELSE Return(poly)

LocalityComplete(r) ==
    /\ r.DISTRITO_ILHA_DSG # None
    /\ r.FREGUESIA_DSG # None
    /\ r.CONCELHO_DSG # None
    /\ r.DICOFRE # NaN

\* PortugalStrategy.populate_localities
populate_localities(sheet, d, ids) ==
    LET rows == SelectSeq(Unique(sheet), LocalityComplete)
        parents == [i \in DOMAIN rows |->
                       Get({c \in d.county :
                               /\ c.name = rows[i].CONCELHO_DSG
                               /\ \E t \in d.district :
                                      t.id = c.district /\ t.name = rows[i].DISTRITO_ILHA_DSG})]
        polygons == [i \in DOMAIN rows |-> find_poly(StrCell(sheet, rows[i].DICOFRE))]
        \* each element evaluates its county first and its polygon second
        built == [i \in DOMAIN rows |->
                     IF parents[i].kind = "raise" THEN parents[i] ELSE polygons[i]]
        bad == FirstRaise(built)
        localities == {Locality(ids.locality + i - 1, rows[i].FREGUESIA_DSG,
                                parents[i].value.id, polygons[i].value) : i \in DOMAIN rows}
    IN  IF bad # 0 THEN built[bad]
        ELSE Done([d EXCEPT !.locality = @ \cup localities],
                  [ids EXCEPT !.locality = @ + Len(rows)])

-----------------------------------------------------------------------------
(* Postal-code resolution *)

NoPoint == Point(NaN, NaN)            \* coordinates_from_postal_code returning None
NoLocality == Locality(0, None, 0, NoGeometry)

\* CountryStrategy.coordinates_from_postal_code.  Line 61 is the chained assignment
\*     latitude = (response["latitude"], longitude) = response["longitude"]
\* whose second target unpacks the longitude, a float.
coordinates_from_postal_code(postal_code, postal_code_extension) ==
    LET full_postal_str == Str(postal_code) \o <<Dash>> \o zfill(Str(postal_code_extension), 3)
        response == query_postal_code(full_postal_str)
        latitude == response.longitude
    IN  IF latitude \in Int THEN Raise("TypeError")
        ELSE LET longitude == latitude[2]
             IN  IF latitude = NaN \/ longitude = NaN THEN Return(NoPoint)
                 ELSE Return(Point(longitude, latitude))

Pair(r) == <<r.num_cod_postal, r.ext_cod_postal>>

Abs(n) == IF n < 0 THEN 0 - n ELSE n

\* the orders in which a Python set of tuples may be iterated: the order follows
\* the hashes, so every order of the elements is possible
RECURSIVE SetOrder(_)
SetOrder(S) ==
    IF S = {} THEN {<<>>}
    ELSE UNION {{<<x>> \o s : s \in SetOrder(S \ {x})} : x \in S}

\* key=lambda tuple: abs(row.ext_cod_postal - tuple[1])
Distance(ext, el) == Abs(ext - el[2])

\* sorted(seq, key=...): stable, so equal keys keep the order of seq
RECURSIVE SortedByDistance(_, _)
SortedByDistance(s, ext) ==
    IF s = <<>> THEN <<>>
    ELSE LET front == SortedByDistance(SubSeq(s, 1, Len(s) - 1), ext)
             last == s[Len(s)]
             n == Cardinality({i \in DOMAIN front :
                                  Distance(ext, front[i]) <= Distance(ext, last)})
         IN  SubSeq(front, 1, n) \o <<last>> \o SubSeq(front, n + 1, Len(front))

\* lines 135-157 without the test against the own pair (a bug variant)
Options_with_own(sheet, row) ==
    LET same == {i \in DOMAIN sheet :
                    /\ row.desig_postal # None /\ sheet[i].desig_postal = row.desig_postal
                    /\ row.cod_distrito # NaN /\ sheet[i].cod_distrito = row.cod_distrito
                    /\ row.cod_concelho # NaN /\ sheet[i].cod_concelho = row.cod_concelho}
        pairs == {Pair(sheet[i]) : i \in same}
    IN  {SortedByDistance(listed, row.ext_cod_postal) : listed \in SetOrder(pairs)}

\* process_postal_code_row, lines 135-157: the lists of fallback candidates the
\* code may build, one for each iteration order of the set.  A comparison of a
\* column with None or NaN is False on every row.
Options(sheet, row) ==
    LET same == {i \in DOMAIN sheet :
                    /\ row.desig_postal # None /\ sheet[i].desig_postal = row.desig_postal
                    /\ row.cod_distrito # NaN /\ sheet[i].cod_distrito = row.cod_distrito
                    /\ row.cod_concelho # NaN /\ sheet[i].cod_concelho = row.cod_concelho}
        pairs == {Pair(sheet[i]) : i \in same}
        others == {el \in pairs : el # Pair(row)}
    IN  {SortedByDistance(listed, row.ext_cod_postal) : listed \in SetOrder(others)}

\* process_postal_code_row, lines 160-162: the own pair, then the options
Candidates(sheet, row) == {<<Pair(row)>> \o options : options \in Options(sheet, row)}

\* process_postal_code_row, lines 159-173: the loop over the own pair and the options
RECURSIVE Resolve(_, _)
Resolve(candidates, d) ==
    IF candidates = <<>> THEN Return(NoLocality)
    ELSE LET point == coordinates_from_postal_code(candidates[1][1], candidates[1][2])
             found == Get({l \in d.locality : Intersects(l.polygon, point.value)})
         IN  IF point.kind = "raise" THEN point
             ELSE IF point.value = NoPoint THEN Resolve(Tail(candidates), d)
             ELSE IF found.kind = "return" THEN found
             ELSE IF found.exc = "DoesNotExist" THEN Resolve(Tail(candidates), d)
             ELSE found

\* " ".join(components) and the f-strings of get_full_address, as token sequences
RECURSIVE Join(_, _)
Join(parts, sep) ==
    IF parts = <<>> THEN <<>>
    ELSE IF Len(parts) = 1 THEN parts
    ELSE <<parts[1], sep>> \o Join(Tail(parts), sep)

TheRow(rows, id) == CHOOSE r \in rows : r.id = id

\* the truth value of a text: false for the empty string only
Truthy(text) == \E i \in DOMAIN text : text[i] # ""

\* PostalCode.get_full_address without the test on equal names (a bug variant:
\* the locality name is repeated when it is the county name)
get_full_address_repeat(p, d) ==
    LET locality == TheRow(d.locality, p.locality)
        county == TheRow(d.county, locality.county)
        district == TheRow(d.district, county.district)
        nation == TheRow(d.country, district.country)
        full_name == Join(SelectSeq(<<p.artery_type, p.prep1, p.artery_title, p.prep2,
                                      p.artery_name, p.artery_local>>, NotNone), " ")
        suffix == <<locality.name, ", ", county.name, ", ", district.name, ", ", nation.name>>
    IN  IF Truthy(full_name) THEN full_name \o <<", ">> \o suffix ELSE suffix

\* PostalCode.get_full_address
get_full_address(p, d) ==
    LET locality == TheRow(d.locality, p.locality)
        county == TheRow(d.county, locality.county)
        district == TheRow(d.district, county.district)
        nation == TheRow(d.country, district.country)
        full_name == Join(SelectSeq(<<p.artery_type, p.prep1, p.artery_title, p.prep2,
                                      p.artery_name, p.artery_local>>, NotNone), " ")
        base == <<county.name, ", ", district.name, ", ", nation.name>>
        suffix == IF locality.name # county.name THEN <<locality.name, ", ">> \o base ELSE base
    IN  IF Truthy(full_name) THEN full_name \o <<", ">> \o suffix ELSE suffix

\* PostalCode.objects.create(...): the row, with PostalCode.save filling full_address
PostalCode(id, locality, row, d) ==
    LET p == [id |-> id, locality |-> locality.id,
              artery_type |-> row.tipo_arteria, prep1 |-> row.prep1,
              artery_title |-> row.titulo_arteria, prep2 |-> row.prep2,
              artery_name |-> row.nome_arteria, artery_local |-> row.local_arteria,
              postal_code |-> row.num_cod_postal,
              postal_code_extension |-> row.ext_cod_postal,
              postal_designation |-> row.desig_postal]
    IN  [id |-> p.id, locality |-> p.locality,
         artery_type |-> p.artery_type, prep1 |-> p.prep1, artery_title |-> p.artery_title,
         prep2 |-> p.prep2, artery_name |-> p.artery_name, artery_local |-> p.artery_local,
         postal_code |-> p.postal_code, postal_code_extension |-> p.postal_code_extension,
         postal_designation |-> p.postal_designation,
         full_address |-> get_full_address(p, d)]

\* a task of the pool: the row it was made for, how far process_postal_code_row
\* has come (stage, the list it iterates, the candidate it is at) and the
\* objects the thread has loaded so far
Thread(n) == [row |-> n, stage |-> "get", tried |-> <<>>, at |-> 0, held |-> EmptyDb]

\* what a thread has reached after a stretch of process_postal_code_row: still
\* running (end = None), or ended by a raise, a skip or the return after create
Going(t, d, ids) == [thread |-> t, end |-> None, exc |-> None, db |-> d, nextId |-> ids]

Ended(t, end, exc, d, ids) ==
    [thread |-> [t EXCEPT !.stage = "done"], end |-> end, exc |-> exc, db |-> d, nextId |-> ids]

\* lines 159-165 from candidate k on, up to the next query of the database:
\* pairs without a coordinate are passed over; an end of the list is the skip
\* of lines 174-184, where the logging.warning call passes five arguments to a
\* message without placeholders, so no line is logged
RECURSIVE Scan(_, _, _, _)
Scan(t, k, d, ids) ==
    IF k > Len(t.tried) THEN Ended(t, "skip", None, d, ids)
    ELSE LET point == coordinates_from_postal_code(t.tried[k][1], t.tried[k][2])
         IN  IF point.kind = "raise" THEN Ended(t, "raise", point.exc, d, ids)
             ELSE IF point.value = NoPoint THEN Scan(t, k + 1, d, ids)
             ELSE Going([t EXCEPT !.at = k], d, ids)

\* the object a foreign key of a loaded object points to, read on first access
Related(rows, id) == Get({r \in rows : r.id = id})

\* process_postal_code_row from one wait on the database to the next, in the
\* thread t over the tables d: the build of the list (lines 135-162), one
\* Locality.objects.get (line 168), the reads of county, district and country
\* by get_full_address (models.py:275), the INSERT of PostalCode.objects.create
Advance(t, sheet, d, ids) ==
    LET row == sheet[t.row]
        locality == CHOOSE l \in t.held.locality : TRUE
        county == CHOOSE c \in t.held.county : TRUE
        district == CHOOSE c \in t.held.district : TRUE
        Load(table, found, next) ==
            IF found.kind = "raise" THEN Ended(t, "raise", found.exc, d, ids)
            ELSE Going([t EXCEPT !.stage = next, !.held[table] = {found.value}], d, ids)
    IN  CASE t.stage = "get" /\ t.at = 0 ->
                {Scan([t EXCEPT !.tried = candidates], 1, d, ids)
                    : candidates \in Candidates(sheet, row)}
          [] t.stage = "get" /\ t.at > 0 ->
                LET point == coordinates_from_postal_code(t.tried[t.at][1], t.tried[t.at][2])
                    found == Get({l \in d.locality : Intersects(l.polygon, point.value)})
                IN  IF found.kind = "return" THEN {Load("locality", found, "county")}
                    ELSE IF found.exc = "DoesNotExist" THEN {Scan(t, t.at + 1, d, ids)}
                    ELSE {Ended(t, "raise", found.exc, d, ids)}
          [] t.stage = "county" ->
                {Load("county", Related(d.county, locality.county), "district")}
          [] t.stage = "district" ->
                {Load("district", Related(d.district, county.district), "country")}
          [] t.stage = "country" ->
                {Load("country", Related(d.country, district.country), "create")}
          [] t.stage = "create" ->
                IF locality.id \notin Ids(d.locality)
                THEN {Ended(t, "raise", "IntegrityError", d, ids)}
                ELSE {Ended(t, "return", None,
                            [d EXCEPT !.postalcode =
                                @ \cup {PostalCode(ids.postalcode, locality, row, t.held)}],
                            [ids EXCEPT !.postalcode = @ + 1])}

\* PortugalStrategy.process_postal_code_row run from its first line to its last
\* with no other thread in between: a raise, a skip or a new row, for each list
\* of candidates the set may yield
process_postal_code_row(sheet, row, d, ids) ==
    LET n == CHOOSE i \in DOMAIN sheet : sheet[i] = row
        RECURSIVE Run(_, _, _)
        Run(t, now, keys) ==
            UNION {IF o.end = None THEN Run(o.thread, o.db, o.nextId)
                   ELSE {[kind |-> o.end, exc |-> o.exc, db |-> o.db, nextId |-> o.nextId,
                          tried |-> o.thread.tried]}
                       : o \in Advance(t, sheet, now, keys)}
    IN  Run(Thread(n), d, ids)

-----------------------------------------------------------------------------
(* Polygon aggregation: models.py and api/serializers.py *)

\* the names of the model, in the order of the database collation
Alphabet == <<"Avintes", "Braga", "Centro", "Gaia", "Madrid", "Porto", "Se">>

Rank(name) == CHOOSE i \in DOMAIN Alphabet : Alphabet[i] = name

\* the rows of one parent in the order of Meta.ordering (parent, name); rows of
\* one name come as the database yields them, here by key
RECURSIVE ByName(_)
ByName(rows) ==
    IF rows = {} THEN <<>>
    ELSE LET r == CHOOSE x \in rows :
                      \A y \in rows : \/ Rank(x.name) < Rank(y.name)
                                      \/ Rank(x.name) = Rank(y.name) /\ x.id <= y.id
         IN  <<r>> \o ByName(rows \ {r})

\* models.compute_polygon_union
compute_polygon_union(polygons) ==
    LET nulls == {i \in DOMAIN polygons : polygons[i] = NoGeometry}
        merged == unary_union(polygons)
    IN  IF nulls # {} THEN Raise("AttributeError")       \* None has no attribute wkt
        ELSE IF merged.geom_type = "Polygon"
             THEN Return(Geometry("MultiPolygon", merged.cells))
             ELSE Return(merged)

\* DetailCountySerializer.get_polygon
county_get_polygon(obj, d) ==
    LET localities == ByName({l \in d.locality : l.county = obj.id})
        polygons == [i \in DOMAIN localities |-> localities[i].polygon]
    IN  compute_polygon_union(polygons)

\* DetailDistrictSerializer.get_polygon: counties LEFT JOIN localities, so a
\* county without localities contributes one None
district_get_polygon(obj, d) ==
    LET counties == ByName({c \in d.county : c.district = obj.id})
        PerCounty(c) ==
            LET localities == ByName({l \in d.locality : l.county = c.id})
            IN  IF localities = <<>> THEN <<NoGeometry>>
                ELSE [i \in DOMAIN localities |-> localities[i].polygon]
        RECURSIVE Flat(_)
        Flat(cs) == IF cs = <<>> THEN <<>> ELSE PerCounty(cs[1]) \o Flat(Tail(cs))
    IN  compute_polygon_union(Flat(counties))

-----------------------------------------------------------------------------
(* management/commands/import_postal_codes.py: a country fixture *)

FixtureKey == 101

\* the rows of a fixture folder: one other country with one row per level
Fixture ==
    [country |-> {Country(FixtureKey, "Spain")},
     district |-> {District(FixtureKey, "Madrid", FixtureKey)},
     county |-> {County(FixtureKey, "Madrid", FixtureKey)},
     locality |-> {Locality(FixtureKey, "Centro", FixtureKey, Geometry("MultiPolygon", {5}))},
     postalcode |-> {[id |-> FixtureKey, locality |-> FixtureKey,
                      artery_type |-> "Calle", prep1 |-> None, artery_title |-> None,
                      prep2 |-> None, artery_name |-> "Mayor", artery_local |-> None,
                      postal_code |-> 2800, postal_code_extension |-> 1,
                      postal_designation |-> "MADRID",
                      full_address |-> <<"Calle", " ", "Mayor", ", ", "Centro", ", ",
                                         "Madrid", ", ", "Madrid", ", ", "Spain">>]}]

Max(S) == CHOOSE x \in S : \A y \in S : y <= x

\* load_country_fixture: loaddata saves every object under its own primary key,
\* then sets the sequence of every loaded table to the highest key of the table
load_country_fixture(d, ids) ==
    LET loaded == [t \in Tables |->
                      {r \in d[t] : r.id \notin Ids(Fixture[t])} \cup Fixture[t]]
    IN  IF \E r \in d.country, f \in Fixture.country : r.name = f.name /\ r.id # f.id
        THEN Raise("IntegrityError")
        ELSE Done(loaded, [t \in Tables |-> Max(Ids(loaded[t])) + 1])

-----------------------------------------------------------------------------
(* The state machine *)

Result(op, outcome) ==
    [op |-> op, arg |-> 0, kind |-> outcome.kind,
     exc |-> IF outcome.kind = "raise" THEN outcome.exc ELSE None,
     value |-> IF outcome.kind = "return" THEN outcome.value ELSE NoGeometry]

Ok == Return(NoGeometry)

NoOrder == [row |-> NoRow, tried |-> <<>>]

\* the empty tables, the input files on disk, and no strategy object yet
Setup(sheets) ==
    /\ db = EmptyDb
    /\ snap = EmptyDb
    /\ pre = EmptyDb
    /\ nextId = [t \in Tables |-> 1]
    /\ pc = "idle"
    /\ result = Result("none", Ok)
    /\ ops = 0
    /\ strategy = None
    /\ \E pair \in sheets : caop_sheet = pair[1] /\ postal_codes_sheet = pair[2]
    /\ queue = <<>>
    /\ workers = {}
    /\ late = EmptyBag
    /\ failure = None
    /\ log = <<>>
    /\ order = NoOrder
    /\ steps = <<>>

Init == Setup(Sheets)

\* an operation is started from outside, one at a time; the threads a
\* terminated pool has left running go on beside it
Start ==
    /\ pc = "idle"
    /\ ops < MaxOps
    /\ ops' = ops + 1
    /\ pre' = db
    /\ order' = NoOrder

Inputs == <<strategy, caop_sheet, postal_codes_sheet>>
Pool == <<queue, workers, late, failure, log>>

\* the exit of transaction.atomic() on an exception, kept as it was entered
rollback_keep(current, savepoint) == current

\* the exit of transaction.atomic() on an exception: back to the savepoint
rollback(current, savepoint) == savepoint

\* the members CountryStrategy declares abstract
AbstractMembers ==
    {"country_code", "country_name", "populate_districts", "populate_counties",
     "populate_postal_codes"}

\* PortugalStrategy, and a child of it that supplies populate_postal_codes with
\* the body of the abstract method (the package itself holds no such class)
Classes == {"PortugalStrategy", "Subclass"}

\* the abstract members a class overrides
Overrides(cls) ==
    {"country_name", "country_code", "populate_districts", "populate_counties"}
        \cup (IF cls = "Subclass" THEN {"populate_postal_codes"} ELSE {})

\* cls(): a class that leaves an abstract member open cannot be instantiated,
\* the TypeError is raised before __init__ runs
Instantiate(cls) ==
    IF AbstractMembers \ Overrides(cls) # {} THEN Raise("TypeError") ELSE Ok

\* the construction of a strategy object
Construct(cls) ==
    /\ pc = "idle"
    /\ strategy = None
    /\ result' = Result(cls, Instantiate(cls))
    /\ strategy' = IF Instantiate(cls).kind = "raise" THEN strategy ELSE cls
    /\ UNCHANGED <<db, snap, pre, nextId, pc, ops, caop_sheet, postal_codes_sheet, Pool,
                   order, steps>>

\* execute, called on a strategy object: enter transaction.atomic()
Execute ==
    /\ Start
    /\ strategy # None
    /\ pc' = "populate_country"
    /\ snap' = db
    /\ steps' = <<>>
    /\ UNCHANGED <<db, nextId, result, Inputs, Pool>>

\* one step of execute; an exception leaves the atomic block and rolls back
Step(name, next, outcome) ==
    /\ pc = name
    /\ steps' = Append(steps, name)
    /\ IF outcome.kind = "raise"
       THEN /\ db' = rollback(db, snap)
            /\ pc' = "idle"
            /\ result' = Result("execute", outcome)
            /\ UNCHANGED nextId
       ELSE /\ db' = outcome.db
            /\ nextId' = outcome.nextId
            /\ pc' = next
            /\ result' = IF next = "idle" THEN Result("execute", Ok) ELSE result
    /\ UNCHANGED <<snap, pre, ops, Inputs, Pool, order>>

PopulateCountry ==
    Step("populate_country", "populate_districts", populate_country(db, nextId))

PopulateDistricts ==
    Step("populate_districts", "populate_counties", populate_districts(caop_sheet, db, nextId))

PopulateCounties ==
    Step("populate_counties", "populate_postal_codes", populate_counties(caop_sheet, db, nextId))

\* the last call of execute, then the atomic block commits
PopulatePostalCodes ==
    Step("populate_postal_codes", "idle", populate_postal_codes(db, nextId))

\* a statement of the running step fails in the database (connection lost,
\* statement refused): the exception leaves the atomic block
ExecuteRaise ==
    /\ pc \in {"populate_country", "populate_districts", "populate_counties",
               "populate_postal_codes"}
    /\ db' = rollback(db, snap)
    /\ pc' = "idle"
    /\ steps' = Append(steps, pc)
    /\ result' = Result("execute", Raise("DatabaseError"))
    /\ UNCHANGED <<snap, pre, nextId, ops, Inputs, Pool, order>>

\* populate_localities, which execute never calls, called on the strategy
PopulateLocalities ==
    /\ Start
    /\ strategy # None
    /\ LET outcome == populate_localities(caop_sheet, db, nextId)
       IN  IF outcome.kind = "raise"
           THEN /\ result' = Result("populate_localities", outcome)
                /\ UNCHANGED <<db, nextId>>
           ELSE /\ result' = Result("populate_localities", Ok)
                /\ db' = outcome.db
                /\ nextId' = outcome.nextId
    /\ UNCHANGED <<snap, pc, Inputs, Pool, steps>>

\* python manage.py import_postal_codes (without --make), with one folder in
\* fixtures/
LoadFixture ==
    /\ Start
    /\ LET outcome == load_country_fixture(db, nextId)
       IN  IF outcome.kind = "raise"
           THEN /\ result' = Result("load_country_fixture", outcome)
                /\ UNCHANGED <<db, nextId>>
           ELSE /\ result' = Result("load_country_fixture", Ok)
                /\ db' = outcome.db
                /\ nextId' = outcome.nextId
    /\ UNCHANGED <<snap, pc, Inputs, Pool, steps>>

\* reversed(list(self.postal_codes_sheet.itertuples())): row numbers, last first
Reversed(sheet) == [i \in DOMAIN sheet |-> Len(sheet) + 1 - i]

\* create_postal_codes up to the start of the parallel map: the raw delete of
\* every PostalCode row
CreatePostalCodes ==
    /\ Start
    /\ strategy # None
    /\ pc' = "create_postal_codes"
    /\ db' = [db EXCEPT !.postalcode = {}]
    /\ queue' = Reversed(postal_codes_sheet)
    /\ failure' = None
    /\ UNCHANGED <<snap, nextId, result, Inputs, workers, late, log, steps>>

\* a free thread of the pool takes the next row handed to the pool.  Parallel
\* hands rows to the pool ahead of the threads, so a row may start after
\* another has raised, until the caller terminates the pool.  (n_jobs=-1 is a
\* thread per CPU; on one CPU the rows run in the caller, one by one.)
Dispatch ==
    /\ pc = "create_postal_codes"
    /\ Cardinality(workers) < NumWorkers
    /\ queue # <<>>
    /\ workers' = workers \cup {Thread(Head(queue))}
    /\ queue' = Tail(queue)
    /\ UNCHANGED <<db, snap, pre, nextId, pc, result, ops, Inputs, late, failure, log, order,
                   steps>>

\* the pairs a task has set out to try, recorded when its list is built
Tried(t, o) == IF t.at = 0 /\ t.stage = "get" THEN [row |-> t.row, tried |-> o.thread.tried]
               ELSE order

\* a thread of the pool runs process_postal_code_row on its row up to its next
\* wait on the database; an exception ends the task and is kept for the caller
ProcessRow(t) ==
    /\ pc = "create_postal_codes"
    /\ t \in workers
    /\ \E o \in Advance(t, postal_codes_sheet, db, nextId) :
           /\ failure' = IF o.end = "raise" /\ failure = None THEN o.exc ELSE failure
           /\ db' = o.db
           /\ nextId' = o.nextId
           /\ order' = Tried(t, o)
           /\ workers' = (workers \ {t}) \cup (IF o.end = None THEN {o.thread} ELSE {})
    /\ log' = log
    /\ UNCHANGED <<snap, pre, pc, result, ops, Inputs, queue, late, steps>>

\* Parallel(...) returns when every row is done, or terminates the pool and
\* re-raises the exception of a failed task: rows not yet started are dropped,
\* rows that are running are not waited for
FinishPostalCodes ==
    /\ pc = "create_postal_codes"
    /\ \/ failure # None
       \/ queue = <<>> /\ workers = {}
    /\ pc' = "idle"
    /\ result' = Result("create_postal_codes", IF failure = None THEN Ok ELSE Raise(failure))
    /\ queue' = <<>>
    /\ late' = late (+) SetToBag(workers)
    /\ workers' = {}
    /\ UNCHANGED <<db, snap, pre, nextId, ops, Inputs, failure, log, order, steps>>

\* a task left running by a terminated pool goes on, on its own connection;
\* whatever it raises ends with its thread
LateRow ==
    /\ \E task \in BagToSet(late) :
           \E o \in Advance(task, postal_codes_sheet, db, nextId) :
               /\ db' = o.db
               /\ nextId' = o.nextId
               /\ order' = Tried(task, o)
               /\ late' = (late (-) SetToBag({task}))
                              (+) (IF o.end = None THEN SetToBag({o.thread}) ELSE EmptyBag)
    /\ UNCHANGED <<snap, pre, pc, result, ops, Inputs, queue, workers, failure, log, steps>>

\* GET of a county detail: DetailCountySerializer.get_polygon
GetCountyPolygon(obj) ==
    /\ Start
    /\ result' = [Result("county_get_polygon", county_get_polygon(obj, db)) EXCEPT !.arg = obj.id]
    /\ UNCHANGED <<db, snap, nextId, pc, Inputs, Pool, steps>>

\* GET of a district detail: DetailDistrictSerializer.get_polygon
GetDistrictPolygon(obj) ==
    /\ Start
    /\ result' = [Result("district_get_polygon", district_get_polygon(obj, db))
                     EXCEPT !.arg = obj.id]
    /\ UNCHANGED <<db, snap, nextId, pc, Inputs, Pool, steps>>

Next ==
    \/ \E cls \in Classes : Construct(cls)
    \/ Execute
    \/ PopulateCountry
    \/ PopulateDistricts
    \/ PopulateCounties
    \/ PopulatePostalCodes
    \/ ExecuteRaise
    \/ PopulateLocalities
    \/ LoadFixture
    \/ CreatePostalCodes
    \/ Dispatch
    \/ \E t \in workers : ProcessRow(t)
    \/ FinishPostalCodes
    \/ LateRow
    \/ \E obj \in db.county : GetCountyPolygon(obj)
    \/ \E obj \in db.district : GetDistrictPolygon(obj)

Spec == Init /\ [][Next]_vars

\* create_postal_codes called again and again on the long postal tables
NextPool ==
    \/ \E cls \in Classes : Construct(cls)
    \/ CreatePostalCodes
    \/ Dispatch
    \/ \E t \in workers : ProcessRow(t)
    \/ FinishPostalCodes
    \/ LateRow

InitPool == Setup(PoolSheets)

SpecPool == InitPool /\ [][NextPool]_vars

-----------------------------------------------------------------------------
(* Rows written through the models themselves: models.py *)

\* the polygons handed to Locality(...): none, a polygon (empty or not), a multipolygon
SavedPolygons ==
    {NoGeometry, Polygon({}), Polygon({1}), Geometry("MultiPolygon", {1, 3})}

LocalityNames == {"Madrid", "Se"}

\* the rows handed to PostalCode.objects.create
SavedRows ==
    { [PostalRow(4000, 9, "PORTO", 13, 12, "Rua", "Flores")
          EXCEPT !.prep1 = "das", !.local_arteria = "Lote 1"],
      PostalRow(4000, 12, "PORTO", 13, 12, None, None),
      PostalRow(4000, 15, "PORTO", 13, 12, "", None) }

\* Locality(...).save() on a field that takes any geometry as it is (a bug
\* variant: a single polygon is saved bare)
Locality_save_bare(l) == Return(l)

\* Locality(...).save(): polygon is a MultiPolygonField, whose attribute takes
\* None or a multipolygon and refuses a polygon (empty or not) with TypeError,
\* when the object is built or when save reads self.polygon; the wrap of a
\* polygon in save is behind that read, so what is saved is what was handed in
Locality_save(l) ==
    IF l.polygon # NoGeometry /\ l.polygon.geom_type # "MultiPolygon"
    THEN Raise("TypeError")
    ELSE Return(l)

\* Locality(county=..., name=..., polygon=...).save()
SaveLocality ==
    /\ Start
    /\ \E county \in db.county, name \in LocalityNames, polygon \in SavedPolygons :
           LET outcome == Locality_save(Locality(nextId.locality, name, county.id, polygon))
           IN  IF outcome.kind = "raise"
               THEN /\ result' = Result("Locality.save", outcome)
                    /\ UNCHANGED <<db, nextId>>
               ELSE /\ result' = Result("Locality.save", Ok)
                    /\ db' = [db EXCEPT !.locality = @ \cup {outcome.value}]
                    /\ nextId' = [nextId EXCEPT !.locality = @ + 1]
    /\ UNCHANGED <<snap, pc, Inputs, Pool, steps>>

\* PostalCode.objects.create(locality=..., ...): PostalCode.save fills full_address
SavePostalCode ==
    /\ Start
    /\ \E locality \in db.locality, row \in SavedRows :
           db' = [db EXCEPT !.postalcode =
                     @ \cup {PostalCode(nextId.postalcode, locality, row, db)}]
    /\ nextId' = [nextId EXCEPT !.postalcode = @ + 1]
    /\ result' = Result("PostalCode.save", Ok)
    /\ UNCHANGED <<snap, pc, Inputs, Pool, steps>>

\* the hierarchy built by the pipeline or a fixture, and rows saved on top of it
NextModels ==
    \/ \E cls \in Classes : Construct(cls)
    \/ Execute
    \/ PopulateCountry
    \/ PopulateDistricts
    \/ PopulateCounties
    \/ PopulatePostalCodes
    \/ PopulateLocalities
    \/ LoadFixture
    \/ SaveLocality
    \/ SavePostalCode

\* the postal table plays no part in these operations
InitModels == Setup(Sheets)

SpecModels == InitModels /\ [][NextModels]_vars

-----------------------------------------------------------------------------
(* Vocabulary of the properties *)

Finished(op) == pc = "idle" /\ result.op = op
Returned(op) == Finished(op) /\ result.kind = "return"
Raised(op) == Finished(op) /\ result.kind = "raise"

\* the rows of d that belong to countries other than the imported one
Foreign(d) ==
    LET countries == {r \in d.country : r.name # country_name}
        districts == {r \in d.district : r.country \in Ids(countries)}
        counties == {r \in d.county : r.district \in Ids(districts)}
        localities == {r \in d.locality : r.county \in Ids(counties)}
    IN  [country |-> countries, district |-> districts, county |-> counties,
         locality |-> localities,
         postalcode |-> {r \in d.postalcode : r.locality \in Ids(localities)}]

\* the hierarchy of the imported country by name and parent, with the row counts
Structure(d) ==
    LET countries == {r \in d.country : r.name = country_name}
        districts == {r \in d.district : r.country \in Ids(countries)}
        counties == {r \in d.county : r.district \in Ids(districts)}
        localities == {r \in d.locality : r.county \in Ids(counties)}
        DistrictOf(c) == TheRow(d.district, c.district).name
        CountyOf(l) == TheRow(d.county, l.county)
    IN  [countries |-> Cardinality(countries),
         districts |-> {r.name : r \in districts},
         districtRows |-> Cardinality(districts),
         counties |-> {<<r.name, DistrictOf(r)>> : r \in counties},
         countyRows |-> Cardinality(counties),
         localities |-> {<<r.name, CountyOf(r).name, DistrictOf(CountyOf(r))>> : r \in localities},
         localityRows |-> Cardinality(localities)]

\* the database after one execute on an empty database
FirstRun(sheet) ==
    LET ids == [t \in Tables |-> 1]
        a == populate_country(EmptyDb, ids)
        b == populate_districts(sheet, a.db, a.nextId)
        c == populate_counties(sheet, b.db, b.nextId)
    IN  c.db

\* the database after one execute and one populate_localities on an empty database
FirstRunLocalities(sheet) ==
    LET d == FirstRun(sheet)
        ids == [t \in Tables |-> 1]
    IN  populate_localities(sheet, d, ids).db

-----------------------------------------------------------------------------
(* Properties *)

\* C1: the import is all-or-nothing: when a step of execute raises, the
\* database holds exactly the rows it held before the run started.
C1_AllOrNothing == Raised("execute") => db = pre

\* C1 witness: execute raised after populate_country and populate_districts had
\* written, over a database that already held districts, while a row of a
\* terminated pool was still running in its thread.
C1_Witness ==
    /\ Raised("execute")
    /\ Len(steps) >= 3
    /\ pre.district # {}
    /\ db = pre
    /\ late # EmptyBag

\* C2: importing one country leaves every row of any other country present
\* and unchanged.
C2_NoCrossCountry == Finished("execute") => Foreign(db) = Foreign(pre)

\* C3: after every successful run there is exactly one Country row of that
\* name, and the districts, counties and localities (by name and parent) are
\* those of a single run, with no rows left over from earlier runs: after
\* execute those of one execute, and after populate_localities on an imported
\* country those of one execute followed by one populate_localities.
C3_Idempotent ==
    /\ Returned("execute") =>
           /\ Structure(db).countries = 1
           /\ Structure(db) = Structure(FirstRun(caop_sheet))
    /\ (Returned("populate_localities") /\ Structure(pre).countries = 1) =>
           Structure(db) = Structure(FirstRunLocalities(caop_sheet))

\* every row of the reference table that names a district, a county, a
\* locality and a region code has its locality in d
LocalitiesBuilt(d) ==
    \A i \in DOMAIN caop_sheet :
        LocalityComplete(caop_sheet[i]) =>
            <<caop_sheet[i].FREGUESIA_DSG, caop_sheet[i].CONCELHO_DSG,
              caop_sheet[i].DISTRITO_ILHA_DSG>> \in Structure(d).localities

\* C4: execute runs populate country, districts, counties and localities, postal
\* records in this order, each once; postal-record resolution starts only
\* after all counties and localities of the reference table have been created.
C4_StepOrder ==
    /\ Returned("execute") =>
           /\ Len(steps) = 4
           /\ steps[4] = "populate_postal_codes"
           /\ LocalitiesBuilt(db)
    /\ pc = "populate_postal_codes" => LocalitiesBuilt(db)

\* the coordinate the geocoding source holds for a pair (NoPoint when it has none)
SourcePoint(pair) ==
    LET row == query_postal_code(Str(pair[1]) \o <<Dash>> \o zfill(Str(pair[2]), 3))
    IN  IF row.latitude = NaN \/ row.longitude = NaN THEN NoPoint
        ELSE Point(row.longitude, row.latitude)

\* the localities of d whose polygon contains the coordinate of a pair
Containing(pair, d) == {l \in d.locality : Intersects(l.polygon, SourcePoint(pair))}

\* the fallback candidates of row number i, in whatever order they are listed
Fallbacks(i) == UNION {Range(o) : o \in Options(postal_codes_sheet, postal_codes_sheet[i])}

\* the fallback candidates of row number i whose coordinate lies in a locality polygon
Viable(i, d) == {el \in Fallbacks(i) : Containing(el, d) # {}}

\* the postal records of d written for row number i
RecordsOf(i, d) ==
    {p \in d.postalcode :
        /\ p.postal_code = postal_codes_sheet[i].num_cod_postal
        /\ p.postal_code_extension = postal_codes_sheet[i].ext_cod_postal
        /\ p.postal_designation = postal_codes_sheet[i].desig_postal
        /\ p.artery_type = postal_codes_sheet[i].tipo_arteria
        /\ p.artery_name = postal_codes_sheet[i].nome_arteria}

\* C5: every persisted postal record is bound to one existing locality, and the
\* polygon of that locality contains the coordinate of the record's own pair or
\* of one of its fallback candidates.
C5_BoundInsidePolygon ==
    \A p \in db.postalcode \ Fixture.postalcode :
        /\ p.locality \in Ids(db.locality)
        /\ \E i \in DOMAIN postal_codes_sheet :
               /\ p \in RecordsOf(i, db)
               /\ \E el \in {Pair(postal_codes_sheet[i])} \cup Fallbacks(i) :
                      TheRow(db.locality, p.locality) \in Containing(el, db)

\* C6: a record whose own coordinate is unavailable or outside every locality
\* polygon is persisted when a fallback candidate has a coordinate inside a
\* locality polygon, bound to the locality of the first such candidate.
C6_FallbackBinds ==
    Finished("create_postal_codes") =>
        \A i \in DOMAIN postal_codes_sheet :
            (Containing(Pair(postal_codes_sheet[i]), db) = {} /\ Viable(i, db) # {}) =>
                \E options \in Options(postal_codes_sheet, postal_codes_sheet[i]) :
                    LET first == CHOOSE k \in DOMAIN options :
                                     /\ options[k] \in Viable(i, db)
                                     /\ \A j \in 1..(k - 1) : options[j] \notin Viable(i, db)
                    IN  \E p \in RecordsOf(i, db) :
                            TheRow(db.locality, p.locality) \in Containing(options[first], db)

\* C7: when neither the own pair nor any fallback candidate of a row yields a
\* coordinate inside a locality polygon, no record is written for the row, the
\* skip is logged, and the import goes on and completes without error.
C7_SkipNotFatal ==
    (/\ Finished("create_postal_codes")
     /\ \A i \in DOMAIN postal_codes_sheet :
            Containing(Pair(postal_codes_sheet[i]), db) = {} /\ Viable(i, db) = {})
    => /\ result.kind = "return"
       /\ db.postalcode = {}
       /\ Range(log) = DOMAIN postal_codes_sheet

\* C8: an error in a resolution worker aborts the batch and rolls back the
\* whole country: the database is the one the run started from.
C8_WorkerErrorRollsBack == Raised("create_postal_codes") => db = pre

\* C9: a region code of the reference table without a feature in the geometry
\* files does not abort the import: its locality is created with a null
\* polygon and the rest of the hierarchy is built.
C9_MissingGeometryTolerated ==
    Finished("populate_localities") =>
        /\ result.exc # "RuntimeError"
        /\ \A i \in DOMAIN caop_sheet :
               (/\ LocalityComplete(caop_sheet[i])
                /\ HasDicofre(StrCell(caop_sheet, caop_sheet[i].DICOFRE)) = <<>>
                /\ result.kind = "return")
               => \E l \in db.locality :
                      l.name = caop_sheet[i].FREGUESIA_DSG /\ l.polygon = NoGeometry

\* the polygons a detail view hands to the union are none at all or all null
NothingToMerge(op, id, d) ==
    IF op = "county_get_polygon"
    THEN \A l \in d.locality : l.county = id => l.polygon = NoGeometry
    ELSE \A c \in d.county : c.district = id =>
             \A l \in d.locality : l.county = c.id => l.polygon = NoGeometry

\* C10: the polygon union does not raise on an empty list or on a list of
\* nulls: it returns an empty aggregate.
C10_UnionOfNothing ==
    (/\ pc = "idle"
     /\ result.op \in {"county_get_polygon", "district_get_polygon"}
     /\ NothingToMerge(result.op, result.arg, db))
    => result.kind = "return" /\ result.value.cells = {}

\* C11: every persisted locality whose polygon is not null holds it as a
\* multipolygon, whether the row was written by Locality.save or by the bulk
\* insert of populate_localities, which keeps a single polygon, wrapped.
C11_MultiPolygonForm ==
    /\ \A l \in db.locality :
           l.polygon # NoGeometry => l.polygon.geom_type = "MultiPolygon"
    /\ Returned("Locality.save") =>
           \E l \in db.locality \ pre.locality :
               \E polygon \in SavedPolygons : l.polygon.cells = polygon.cells
    /\ (Returned("populate_localities") /\ pre.locality = {}) =>
           \A l \in db.locality :
               \E i \in DOMAIN caop_sheet :
                   /\ l.name = caop_sheet[i].FREGUESIA_DSG
                   /\ l.polygon.cells =
                          UNION {f.geom.cells : f \in Range(HasDicofre(Str(caop_sheet[i].DICOFRE)))}

\* C11 witness: a locality saved through Locality.save sits next to one that the
\* bulk insert built from a single-polygon feature, both as multipolygons.
C11_Witness ==
    /\ Returned("Locality.save")
    /\ \E l \in db.locality \ pre.locality : l.polygon = Geometry("MultiPolygon", {1, 3})
    /\ \E l \in pre.locality : l.name = "Se" /\ l.polygon = Geometry("MultiPolygon", {1, 2})

\* C12: the full_address of every persisted postal record is the text made of
\* its non-absent artery components (type, prep1, title, prep2, name, local)
\* joined by single spaces, followed by "locality, county, district, country",
\* the locality name left out when it equals the county name; the joined text
\* and its comma stand in front of the places when that text is not empty.
C12_FullAddress ==
    \A p \in db.postalcode :
        LET locality == TheRow(db.locality, p.locality)
            county == TheRow(db.county, locality.county)
            district == TheRow(db.district, county.district)
            nation == TheRow(db.country, district.country)
            Present(i) == <<p.artery_type, p.prep1, p.artery_title, p.prep2,
                            p.artery_name, p.artery_local>>[i] # None
            street == IF Present(1) THEN <<p.artery_type>> ELSE <<>>
            streetPrep1 == IF Present(2) THEN Append(street, p.prep1) ELSE street
            streetTitle == IF Present(3) THEN Append(streetPrep1, p.artery_title) ELSE streetPrep1
            streetPrep2 == IF Present(4) THEN Append(streetTitle, p.prep2) ELSE streetTitle
            streetName == IF Present(5) THEN Append(streetPrep2, p.artery_name) ELSE streetPrep2
            components == IF Present(6) THEN Append(streetName, p.artery_local) ELSE streetName
            spaced == [i \in 1..(2 * Len(components) - 1) |->
                          IF i % 2 = 1 THEN components[(i + 1) \div 2] ELSE " "]
            places == IF locality.name = county.name
                      THEN <<county.name, ", ", district.name, ", ", nation.name>>
                      ELSE <<locality.name, ", ", county.name, ", ", district.name, ", ",
                             nation.name>>
        IN  p.full_address = IF \A i \in DOMAIN spaced : spaced[i] = "" THEN places
                             ELSE spaced \o <<", ">> \o places

\* C12 witness: PostalCode.save has written a record with an absent component
\* between two present ones, in a locality named like its county.
C12_Witness ==
    /\ Returned("PostalCode.save")
    /\ \E p \in db.postalcode \ pre.postalcode :
           /\ p.artery_type # None /\ p.prep1 # None /\ p.artery_title = None
           /\ p.artery_local # None
           /\ TheRow(db.locality, p.locality).name
                  = TheRow(db.county, TheRow(db.locality, p.locality).county).name

\* no two rows of a level share their name and their parent
UniqueByNameAndParent(d) ==
    /\ \A a \in d.district, b \in d.district :
           (a.name = b.name /\ a.country = b.country) => a = b
    /\ \A a \in d.county, b \in d.county :
           (a.name = b.name /\ a.district = b.district) => a = b
    /\ \A a \in d.locality, b \in d.locality :
           (a.name = b.name /\ a.county = b.county) => a = b

\* C13: after the hierarchy is built from the reference table, no two districts
\* of a country, counties of a district or localities of a county share a name,
\* and every (name, parent) combination of the table whose names are all present
\* has exactly one row, however many source rows repeat it.
C13_DedupByNameParent ==
    /\ Returned("execute") =>
           /\ UniqueByNameAndParent(db)
           /\ \A i \in DOMAIN caop_sheet :
                  LET r == caop_sheet[i]
                  IN  /\ r.DISTRITO_ILHA_DSG # None =>
                             r.DISTRITO_ILHA_DSG \in Structure(db).districts
                      /\ (r.DISTRITO_ILHA_DSG # None /\ r.CONCELHO_DSG # None) =>
                             <<r.CONCELHO_DSG, r.DISTRITO_ILHA_DSG>> \in Structure(db).counties
    /\ (/\ Returned("populate_localities")
        /\ Structure(pre).countries = 1
        /\ Structure(pre).localityRows = 0) =>
           /\ UniqueByNameAndParent(db)
           /\ \A i \in DOMAIN caop_sheet :
                  LET r == caop_sheet[i]
                  IN  (/\ r.DISTRITO_ILHA_DSG # None
                       /\ r.CONCELHO_DSG # None
                       /\ r.FREGUESIA_DSG # None) =>
                          <<r.FREGUESIA_DSG, r.CONCELHO_DSG, r.DISTRITO_ILHA_DSG>>
                              \in Structure(db).localities

\* C14: the coordinate lookup returns the coordinate the geocoding source holds
\* for the exact pair and returns None, without raising, when the source has
\* none; after a None the resolver goes on with the next candidate.
C14_CoordinateOrNone ==
    /\ failure # "TypeError"
    /\ \A t \in workers :
           pc = "create_postal_codes" =>
               LET row == postal_codes_sheet[t.row]
                   pair == Pair(row)
               IN  /\ coordinates_from_postal_code(pair[1], pair[2]) = Return(SourcePoint(pair))
                   /\ SourcePoint(pair) = NoPoint =>
                          \A candidates \in Candidates(postal_codes_sheet, row) :
                              Resolve(candidates, db) = Resolve(Tail(candidates), db)

\* C15: a record tries its own pair first, then the fallback candidates in
\* non-decreasing distance between their extension and the record's extension,
\* and that order is the only one the candidates and the record admit.
C15_TriedOrder ==
    order.row # NoRow =>
        LET row == postal_codes_sheet[order.row]
            tried == order.tried
        IN  /\ tried[1] = <<row.num_cod_postal, row.ext_cod_postal>>
            /\ \A i \in 2..Len(tried), j \in 2..Len(tried) :
                   i < j => Abs(row.ext_cod_postal - tried[i][2])
                                <= Abs(row.ext_cod_postal - tried[j][2])
            /\ \A candidates \in Candidates(postal_codes_sheet, row) : candidates = tried

\* C16: the fallback candidates of a record are exactly the distinct pairs of
\* the rows that have a label, a district code and a county code and share them
\* with the record, without the record's own pair, each once.
C16_CandidateSet ==
    order.row # NoRow =>
        LET row == postal_codes_sheet[order.row]
            options == Tail(order.tried)
            alike == {r \in Range(postal_codes_sheet) :
                         /\ r.desig_postal # None /\ r.desig_postal = row.desig_postal
                         /\ r.cod_distrito # NaN /\ r.cod_distrito = row.cod_distrito
                         /\ r.cod_concelho # NaN /\ r.cod_concelho = row.cod_concelho}
        IN  /\ Range(options) = {<<r.num_cod_postal, r.ext_cod_postal>> : r \in alike}
                                    \ {<<row.num_cod_postal, row.ext_cod_postal>>}
            /\ \A i \in DOMAIN options, j \in DOMAIN options :
                   i # j => options[i] # options[j]

\* C16 witness: a record processed from a table that holds a pair of its label on
\* two rows, its own pair, and a row of another label and county, in a pool
\* started while a row of an earlier pool was still running.
C16_Witness ==
    /\ order.row # NoRow
    /\ pc = "create_postal_codes"
    /\ late # EmptyBag
    /\ LET row == postal_codes_sheet[order.row]
       IN  /\ \E i \in DOMAIN postal_codes_sheet, j \in DOMAIN postal_codes_sheet :
                  /\ i # j
                  /\ Pair(postal_codes_sheet[i]) = Pair(postal_codes_sheet[j])
                  /\ Pair(postal_codes_sheet[i]) # Pair(row)
                  /\ postal_codes_sheet[i].desig_postal = row.desig_postal
           /\ \E r \in Range(postal_codes_sheet) : r.desig_postal # row.desig_postal
           /\ Len(order.tried) > 2

\* C18: a coordinate binds a record only when exactly one locality polygon
\* contains it, and a row whose coordinate lies in two or more locality polygons
\* does not abort the import.
C18_AmbiguousPointNotFatal ==
    /\ \A p \in db.postalcode \ pre.postalcode :
           pc = "create_postal_codes" =>
               \E i \in DOMAIN postal_codes_sheet :
                   \E pair \in {Pair(postal_codes_sheet[i])} \cup Fallbacks(i) :
                       Containing(pair, db) = {TheRow(db.locality, p.locality)}
    /\ (/\ Finished("create_postal_codes")
        /\ order.row # NoRow
        /\ Cardinality(Containing(Pair(postal_codes_sheet[order.row]), db)) >= 2)
       => result.kind = "return"

\* the postal records of d without their primary keys
Unkeyed(d) ==
    {[locality |-> p.locality, postal_code |-> p.postal_code,
      postal_code_extension |-> p.postal_code_extension,
      postal_designation |-> p.postal_designation, full_address |-> p.full_address]
        : p \in d.postalcode}

\* the databases one thread may leave when it takes the rows one by one in the
\* order of the iterator and stops at the first exception
RECURSIVE OneByOne(_, _, _)
OneByOne(rows, d, ids) ==
    IF rows = <<>> THEN {d}
    ELSE UNION {IF outcome.kind = "raise" THEN {d}
                ELSE OneByOne(Tail(rows), outcome.db, outcome.nextId)
                    : outcome \in process_postal_code_row(postal_codes_sheet,
                                                          postal_codes_sheet[rows[1]], d, ids)}

\* C19: whatever the order and interleaving of the workers, create_postal_codes
\* ends with the postal records, bound to the localities, that one thread
\* taking the rows one by one ends with.
C19_ScheduleIndependent ==
    Finished("create_postal_codes") =>
        Unkeyed(db) \in {Unkeyed(d) : d \in OneByOne(Reversed(postal_codes_sheet),
                                                      [pre EXCEPT !.postalcode = {}], nextId)}

\* C17: a record is bound only to a locality found among those of its declared
\* district and county.  The tables hold no district or county code to compare
\* with cod_distrito and cod_concelho, so the scope is stated by the country: a
\* record written by a worker is bound to a locality of the imported country.
C17_ScopedContainment ==
    pc = "create_postal_codes" =>
        \A p \in db.postalcode :
            TheRow(db.locality, p.locality) \notin Foreign(db).locality

\* C20: while the workers run, no step changes a persisted row; the tables
\* change only before the workers start and after they are done.
C20_WorkersOnlyRead ==
    [][(pc = "create_postal_codes" /\ pc' = "create_postal_codes") => db' = db]_vars

====
